---- MODULE Spec2Model ----
(***************************************************************************)
(* The document-ingestion pipeline of src/llamastack/docling-pipeline.py:  *)
(* register_vector_db (Registrar), import_test_pdfs (Fetcher),             *)
(* create_pdf_splits (Partitioner), docling_convert (Worker) and the task  *)
(* graph of docling_convert_pipeline (Orchestrator).                       *)
(***************************************************************************)
EXTENDS Integers, Sequences, FiniteSets, TLC

\* ------------------------------------------------------------------ bounds
\* Largest number of comma-separated tokens given to the Fetcher alone.
MaxNames == 3
\* Largest number N of documents listed for the Partitioner alone.
MaxDocs == 3
\* Largest partition count K (num_splits) tried on its own; the smallest is -1.
MaxK == 3
\* Largest number of chunks the chunker yields for one document.
MaxChunks == 1
\* Largest number of chunks of the first document of a Worker run alone.
WorkerChunks == 2
\* Largest number of models in the registry given to the Registrar alone.
MaxModels == 2
\* Largest number of invocations of the Registrar alone.
MaxRegRuns == 2
\* get_sentence_embedding_dimension() of the model the Workers load.
ModelDim == 3

\* ------------------------------------------------------------------ values
\* A staged path: stem and suffix of the file name (pathlib's stem/suffix).
NoName == [stem |-> "", suffix |-> ""]
PipeNames == <<[stem |-> "d0", suffix |-> ".pdf"], [stem |-> "d1", suffix |-> ".pdf"]>>
FetchNames == {[stem |-> "d0", suffix |-> ".pdf"], [stem |-> "d1", suffix |-> ".pdf"]}

\* A token between two commas of pdf_filenames: a name (or nothing), with or
\* without surrounding blanks.
Tokens == [pad : BOOLEAN, name : FetchNames \cup {NoName}]

\* Body sizes of a downloaded file: empty or not.
Sizes == {0, 1}

\* The num_workers of a pipeline run over the two documents of PipeNames.
PipeWorkerCounts == {0, 1, 2}

\* Embedding dimensions a model or a collection can have: the one of the
\* Workers' model, and another.
OtherDim == ModelDim - 1
Dims == {OtherDim, ModelDim}

SeqsUpTo(S, n) == UNION {[1..k -> S] : k \in 0..n}
InjSeqsUpTo(S, n) == {s \in SeqsUpTo(S, n) : \A i, j \in 1..Len(s) : i # j => s[i] # s[j]}
Range(s) == {s[i] : i \in 1..Len(s)}

RECURSIVE SelectSeqIdx(_, _, _)
\* The subsequence of s at the positions (1-based, ascending) that satisfy keep.
SelectSeqIdx(s, keep(_), i) ==
    IF i > Len(s) THEN <<>>
    ELSE (IF keep(i) THEN <<s[i]>> ELSE <<>>) \o SelectSeqIdx(s, keep, i + 1)

VARIABLES
    pdf_filenames,  \* Fetcher input: the tokens of the comma-separated list
    num_workers,    \* pipeline parameter num_workers (num_splits of the Partitioner)
    fstatus,        \* Fetcher task: "idle", "running", "done", "raised"
    fidx,           \* Fetcher: position in filenames of the next download
    attempted,      \* Fetcher: the downloads attempted, in order: [name, ok]
    staged,         \* files in the staging directory: records [name, size]
    all_pdfs,       \* Partitioner: the listing it split
    sstatus,        \* Partitioner task: "idle", "done", "raised"
    splits,         \* Partitioner output (List[List[str]])
    registry,       \* the models client.models.list() returns, in order
    rstatus,        \* Registrar task: "idle", "done", "raised"
    collDim,        \* embedding dimension of the Collection vector_db_id; 0: not registered
    regCalls,       \* the vector_dbs.register calls issued, in order:
                    \* [vector_db_id, embedding_dimension, provider_id]
    workers,        \* one docling_convert task per element of splits
    store,          \* chunk rows of the Collection
    calls,          \* the vector_io.insert calls issued
    use_gpu,        \* pipeline parameter use_gpu
    answers         \* per document of a Worker run alone: what the chunker,
                    \* the embedding model and the tokenizer will answer

fetchVars == <<pdf_filenames, fstatus, fidx, attempted, staged>>
splitVars == <<num_workers, all_pdfs, sstatus, splits>>
regVars == <<registry, rstatus, collDim, regCalls>>
workVars == <<workers, store, calls>>
envVars == <<use_gpu, answers>>
vars == <<pdf_filenames, num_workers, fstatus, fidx, attempted, staged,
          all_pdfs, sstatus, splits, registry, rstatus, collDim,
          regCalls, workers, store, calls, use_gpu, answers>>

\* ----------------------------------------------------------------- Fetcher
\* str.strip() of a token.
Strip(t) == [t EXCEPT !.pad = FALSE]

\* filenames = [f.strip() for f in pdf_filenames.split(",") if f.strip()]
Filenames(tokens) ==
    LET keep(i) == Strip(tokens[i]).name # NoName
        kept == SelectSeqIdx(tokens, keep, 1)
    IN [i \in 1..Len(kept) |-> Strip(kept[i]).name]

\* What one download can end in: success, or the exception it raises.
\* requests.get raises ConnectionError or Timeout, raise_for_status raises
\* HTTPError, open() raises OSError, and shutil.copyfileobj(response.raw, f)
\* reads the urllib3 stream directly, so a broken body raises urllib3's
\* ProtocolError (or OSError on write).
DownloadOutcomes == {"ok", "ConnectionError", "Timeout", "HTTPError",
                     "OpenOSError", "ProtocolError", "WriteOSError"}

\* except requests.exceptions.RequestException
IsRequestException(e) == e \in {"ConnectionError", "Timeout", "HTTPError"}

\* A file opened before the request is made.
FileCreatedBeforeRequest(e) == TRUE

\* The file is created by open(file_path, "wb"), before the body is copied.
FileCreated(e) == e \in {"ok", "ProtocolError", "WriteOSError"}

FetchStart ==
    /\ fstatus = "idle"
    /\ fstatus' = "running"
    /\ fidx' = 1
    /\ UNCHANGED <<pdf_filenames, attempted, staged>>

\* One iteration of the loop over filenames.
FetchFile(sizes) ==
    /\ fstatus = "running"
    /\ fidx <= Len(Filenames(pdf_filenames))
    /\ LET filename == Filenames(pdf_filenames)[fidx] IN
       \E e \in DownloadOutcomes, size \in sizes :
          /\ attempted' = Append(attempted, [name |-> filename, ok |-> e = "ok"])
          /\ staged' = IF FileCreated(e)
                       THEN {f \in staged : f.name # filename}
                            \cup {[name |-> filename, size |-> IF e = "ok" THEN size ELSE 0]}
                       ELSE staged
          /\ IF e = "ok" \/ IsRequestException(e)
             THEN fstatus' = fstatus /\ fidx' = fidx + 1
             ELSE fstatus' = "raised" /\ fidx' = fidx
    /\ UNCHANGED pdf_filenames

FetchReturn ==
    /\ fstatus = "running"
    /\ fidx > Len(Filenames(pdf_filenames))
    /\ fstatus' = "done"
    /\ UNCHANGED <<pdf_filenames, fidx, attempted, staged>>

\* ------------------------------------------------------------- Partitioner
\* range(n): the indices 0 .. n-1, none when n <= 0.
PyRange(n) == 0..(n - 1)

\* l[i:]: the slice without its step.
SliceFromNoStep(l, i, k) ==
    [j \in 1..(IF i >= Len(l) THEN 0 ELSE Len(l) - i) |-> l[i + j]]

\* l[i::k] for a step k > 0: the elements at 0-based indices i, i+k, i+2k, ...
SliceFrom(l, i, k) ==
    LET n == IF i >= Len(l) THEN 0 ELSE (Len(l) - i + k - 1) \div k
    IN [j \in 1..n |-> l[i + (j - 1) * k + 1]]

\* A slice with step 0 raises ValueError; it is evaluated once per index of
\* range(num_splits).
SplitsRaises(pdfs, k) == \E i \in PyRange(k) : k = 0

\* The batches all_pdfs[i::num_splits] for i in range(num_splits).
Batches(pdfs, k) ==
    LET idx == PyRange(k)
    IN [j \in 1..Cardinality(idx) |-> SliceFrom(pdfs, j - 1, k)]

\* The comprehension without its "if batch" filter.
create_pdf_splits_keep_empty(pdfs, k) ==
    LET b == Batches(pdfs, k)
    IN IF b = <<>> THEN <<<<>>>> ELSE b

\* return splits, without the fallback to [[]].
create_pdf_splits_no_fallback(pdfs, k) ==
    LET b == Batches(pdfs, k)
        keep(i) == b[i] # <<>>
    IN SelectSeqIdx(b, keep, 1)

\* splits = [batch for batch in ... if batch]; return splits or [[]]
create_pdf_splits(pdfs, k) ==
    LET b == Batches(pdfs, k)
        keep(i) == b[i] # <<>>
        kept == SelectSeqIdx(b, keep, 1)
    IN IF kept = <<>> THEN <<<<>>>> ELSE kept

\* The Partitioner on a given listing.
SplitListing(pdfs) ==
    /\ sstatus = "idle"
    /\ all_pdfs' = pdfs
    /\ IF SplitsRaises(pdfs, num_workers)
       THEN sstatus' = "raised" /\ splits' = splits
       ELSE sstatus' = "done" /\ splits' = create_pdf_splits(pdfs, num_workers)
    /\ UNCHANGED num_workers

\* --------------------------------------------------------------- Registrar
\* The run's embed_model_id and the provider resource ids a registry may hold.
EmbedModelId == "granite"

\* The run's vector_db_id.
VectorDbId == "sreips_vector_id"

\* The first model that has the id and is an embedding model.
MatchingModelOfType(models, id) ==
    LET hits == {i \in 1..Len(models) : /\ models[i].provider_resource_id = id
                                         /\ models[i].model_type = "embedding"}
    IN IF hits = {} THEN 0 ELSE CHOOSE i \in hits : \A j \in hits : i <= j

\* next((m for m in models if m.provider_resource_id == embed_model_id), None):
\* the position of the first match, 0 for None.
MatchingModel(models, id) ==
    LET hits == {i \in 1..Len(models) : models[i].provider_resource_id = id}
    IN IF hits = {} THEN 0 ELSE CHOOSE i \in hits : \A j \in hits : i <= j

\* The check for a missing model alone, without the check of its type.
RegistrarRaisesNoTypeCheck(models, id) == MatchingModel(models, id) = 0

\* A Registrar that also refuses a Collection that is registered already.
RegistrarRaisesIfRegistered(models, id) ==
    LET m == MatchingModel(models, id)
    IN \/ m = 0
       \/ models[m].model_type # "embedding"
       \/ collDim # 0

\* The two raise ValueError statements before the registration call.
RegistrarRaises(models, id) ==
    LET m == MatchingModel(models, id)
    IN \/ m = 0
       \/ models[m].model_type # "embedding"

\* A registration that replaces the Collection.
RegisteredDimOverwrite(old, dim) == dim

\* vector_dbs.register on the server: a new Collection takes the dimension
\* given, an existing one keeps its own.
RegisteredDim(old, dim) == IF old = 0 THEN dim ELSE old

\* The body of register_vector_db.
RegisterBody ==
    /\ IF RegistrarRaises(registry, EmbedModelId)
       THEN /\ rstatus' = "raised"
            /\ UNCHANGED <<collDim, regCalls>>
       ELSE LET m == registry[MatchingModel(registry, EmbedModelId)]
                dim == m.embedding_dimension
            IN /\ rstatus' = "done"
               /\ regCalls' = Append(regCalls, [vector_db_id |-> VectorDbId,
                                                 embedding_dimension |-> dim,
                                                 provider_id |-> "milvus"])
               /\ collDim' = RegisteredDim(collDim, dim)
    /\ UNCHANGED registry

\* register_vector_db, the task of a pipeline run.
Register == rstatus = "idle" /\ RegisterBody

\* register_vector_db invoked again with the same identifiers.
RegisterAgain ==
    /\ rstatus = "done"
    /\ Len(regCalls) < MaxRegRuns
    /\ RegisterBody

\* ------------------------------------------------------------------ Worker
\* path.suffix.lower()
Lower(suffix) == IF suffix = ".PDF" THEN ".pdf" ELSE suffix

\* The Partitioner's filter: path.suffix.lower() == ".pdf".
SplitSelects(f) == Lower(f.name.suffix) = ".pdf"

\* The Worker's filter: rglob("*.pdf"), then exists() and st_size > 0.
ConvertSelects(f) == f.name.suffix = ".pdf" /\ f.size > 0

\* rglob lists a directory in the file system's order, taken here to be the
\* order of PipeNames: the listing of the files named in `names`.
Listing(names) ==
    LET keep(i) == PipeNames[i] \in names
    IN SelectSeqIdx(PipeNames, keep, 1)

\* What the chunker, the embedding model and the tokenizer answer for one
\* chunk: the contextualized text ("None" for a None chunk), whether encode()
\* raises, the length of the vector it returns, whether count_tokens raises.
ChunkEnvs ==
    {[raw |-> r, embRaises |-> FALSE, embLen |-> 0, tokRaises |-> FALSE] : r \in {"None", "", " "}}
    \cup {[raw |-> "text", embRaises |-> TRUE, embLen |-> 0, tokRaises |-> FALSE]}
    \cup {[raw |-> "text", embRaises |-> FALSE, embLen |-> d, tokRaises |-> t] :
             d \in Dims, t \in BOOLEAN}

\* The answers tried in a pipeline run: one per way through lines 189-231.
PipeChunkEnvs ==
    {c \in ChunkEnvs : c.raw \in {"", "text"} /\ (c.tokRaises => c.embLen = ModelDim)}

\* What the chunker may yield for a document of a pipeline run.
PipeAnswers == SeqsUpTo(PipeChunkEnvs, MaxChunks)

\* raw_chunk.strip()
StripText(raw) == IF raw = " " THEN "" ELSE raw

\* The chunk passes lines 189-206: not None, not blank, embedded without an
\* error, and the vector has embedding_dim entries.
PassesChecks(c, embedding_dim) ==
    /\ c.raw # "None"
    /\ c.raw # "" /\ StripText(c.raw) # ""
    /\ ~c.embRaises
    /\ c.embLen = embedding_dim

\* count_tokens is called, outside any try, for every chunk that passes.
TokenizerRaises(chunks, embedding_dim) ==
    \E i \in 1..Len(chunks) : PassesChecks(chunks[i], embedding_dim) /\ chunks[i].tokRaises

\* chunker.tokenizer.count_tokens(raw_chunk): the texts of the model are
\* blank or one word.
CountTokens(raw) == IF raw \in {"None", "", " "} THEN 0 ELSE 1

\* The keys of metadata_obj when it is serialized, in insertion order.
MetadataKeys == <<"chunk_id", "document_id", "file_name", "token_count">>

\* json.dumps(metadata_obj): the key and the value of every entry the
\* dict has at that moment, in order.
JsonDumps(obj, keys) == [i \in 1..Len(keys) |-> <<keys[i], obj[keys[i]]>>]

\* count_tokens of a serialized dict: a token per key and a token per value.
CountJsonTokens(str) == 2 * Len(str)

\* metadata_token_count counted once the field (still 0) is in the dict.
MetadataCountedLast(chunk_id, file_name, raw) ==
    LET metadata_obj == [chunk_id |-> chunk_id, document_id |-> file_name,
                         file_name |-> file_name, token_count |-> CountTokens(raw),
                         metadata_token_count |-> 0]
        metadata_str == JsonDumps(metadata_obj, Append(MetadataKeys, "metadata_token_count"))
    IN [metadata_obj EXCEPT !.metadata_token_count = CountJsonTokens(metadata_str)]

\* Lines 211-220: metadata_obj, serialized and counted, then given its
\* metadata_token_count.
Metadata(chunk_id, file_name, raw) ==
    LET metadata_obj == [chunk_id |-> chunk_id, document_id |-> file_name,
                         file_name |-> file_name, token_count |-> CountTokens(raw)]
        metadata_str == JsonDumps(metadata_obj, MetadataKeys)
    IN [k \in DOMAIN metadata_obj \cup {"metadata_token_count"} |->
           IF k = "metadata_token_count" THEN CountJsonTokens(metadata_str)
           ELSE metadata_obj[k]]

\* One identifier per Worker, drawn before the loops.
Uuid4Once(w, n) == <<w, 0>>

\* Identifiers taken from a counter every Worker starts at the same value.
Uuid4Shared(w, n) == <<0, n>>

\* str(uuid.uuid4()): the n-th identifier drawn by Worker w.
Uuid4(w, n) == <<w, n>>

\* A loop that stops at the first chunk it discards (break for continue).
ChunksWithEmbeddingBreak(w, nid, file_name, chunks, embedding_dim) ==
    LET bad == {i \in 1..Len(chunks) : ~PassesChecks(chunks[i], embedding_dim)}
        n == IF bad = {} THEN Len(chunks)
             ELSE (CHOOSE i \in bad : \A j \in bad : i <= j) - 1
    IN [j \in 1..n |->
           [chunk_id |-> Uuid4(w, nid + j),
            document_id |-> file_name,
            pos |-> j,
            content |-> chunks[j].raw,
            dim |-> chunks[j].embLen,
            metadata |-> Metadata(Uuid4(w, nid + j), file_name, chunks[j].raw)]]

\* chunks_with_embedding for one document: a row per chunk that passes, in
\* chunk order, each with a fresh chunk_id.
ChunksWithEmbedding(w, nid, file_name, chunks, embedding_dim) ==
    LET keep(i) == PassesChecks(chunks[i], embedding_dim)
        pos == SelectSeqIdx([i \in 1..Len(chunks) |-> i], keep, 1)
    IN [j \in 1..Len(pos) |->
           [chunk_id |-> Uuid4(w, nid + j),
            document_id |-> file_name,
            pos |-> pos[j],
            content |-> chunks[pos[j]].raw,
            dim |-> chunks[pos[j]].embLen,
            metadata |-> Metadata(Uuid4(w, nid + j), file_name, chunks[pos[j]].raw)]]

\* valid_chunks: the sanity filter of lines 234-241.
ValidChunks(rows, embedding_dim) ==
    LET keep(i) == rows[i].dim = embedding_dim /\ StripText(rows[i].content) # ""
    IN SelectSeqIdx(rows, keep, 1)

\* dsl.If(use_gpu == True) ... dsl.Else(): the branch whose task runs.
BranchTaken(flag) == IF flag = TRUE THEN "gpu" ELSE "cpu"

\* Lines 345-352: what the task of the If branch is called with (pipeline
\* parameters and task outputs by name).
GpuBranchArgs(split) ==
    [input_path |-> "import_task.output", pdf_split |-> split,
     embed_model_id |-> "embed_model_id", max_tokens |-> "max_tokens",
     service_url |-> "service_url", vector_db_id |-> "vector_db_id"]

\* An Else branch that hands its task the Registrar's inputs in another order.
CpuBranchArgsSwapped(split) ==
    [input_path |-> "import_task.output", pdf_split |-> split,
     embed_model_id |-> "embed_model_id", max_tokens |-> "max_tokens",
     service_url |-> "vector_db_id", vector_db_id |-> "service_url"]

\* Lines 372-379: what the task of the Else branch is called with.
CpuBranchArgs(split) ==
    [input_path |-> "import_task.output", pdf_split |-> split,
     embed_model_id |-> "embed_model_id", max_tokens |-> "max_tokens",
     service_url |-> "service_url", vector_db_id |-> "vector_db_id"]

\* Lines 353-370: the settings of the task of the If branch.
GpuBranchResources ==
    [caching |-> FALSE, cpu_request |-> "500m", cpu_limit |-> "4",
     memory_request |-> "2Gi", memory_limit |-> "6Gi",
     accelerator_type |-> "nvidia.com/gpu", accelerator_limit |-> 1,
     tolerations |-> <<[effect |-> "NoSchedule", key |-> "nvidia.com/gpu",
                        operator |-> "Exists"]>>,
     node_selector |-> "{}"]

\* Lines 380-384: the settings of the task of the Else branch; no
\* accelerator (a limit of 0), no toleration and no node selector are set.
CpuBranchResources ==
    [caching |-> FALSE, cpu_request |-> "500m", cpu_limit |-> "4",
     memory_request |-> "2Gi", memory_limit |-> "6Gi",
     accelerator_type |-> "", accelerator_limit |-> 0,
     tolerations |-> <<>>,
     node_selector |-> ""]

\* The task created for one element of the Partitioner's output.
NewWorker(split) ==
    [pdf_split |-> split, status |-> "pending", docs |-> <<>>, idx |-> 0,
     err |-> "none", nid |-> 0, skipped |-> {},
     branch |-> BranchTaken(use_gpu),
     args |-> IF BranchTaken(use_gpu) = "gpu" THEN GpuBranchArgs(split)
              ELSE CpuBranchArgs(split),
     resources |-> IF BranchTaken(use_gpu) = "gpu" THEN GpuBranchResources
                   ELSE CpuBranchResources]

\* A task graph that starts no Worker once a sibling has raised.
CanStartWorkerFailFast ==
    /\ fstatus = "done" /\ sstatus = "done"
    /\ \A v \in DOMAIN workers : workers[v].status # "raised"

\* A loop that runs its iterations one at a time.
CanStartWorkerSequential ==
    /\ fstatus = "done" /\ sstatus = "done"
    /\ \A v \in DOMAIN workers : workers[v].status # "running"

\* The Orchestrator's condition to start a docling_convert task: the tasks
\* whose outputs it takes (import_task.output, pdf_splits.output) succeeded.
CanStartWorker == fstatus = "done" /\ sstatus = "done"

\* Lines 256-267: list the staging directory; raise when nothing is usable.
WorkerStart(w) ==
    /\ CanStartWorker
    /\ workers[w].status = "pending"
    /\ LET input_pdfs == Listing({f.name : f \in {g \in staged : ConvertSelects(g)}}) IN
       workers' = [workers EXCEPT ![w] =
          IF input_pdfs = <<>>
          THEN [@ EXCEPT !.status = "raised", !.err = "RuntimeError"]
          ELSE [@ EXCEPT !.status = "running", !.docs = input_pdfs, !.idx = 1]]
    /\ UNCHANGED <<store, calls>>

InLoop(w) == workers[w].status = "running" /\ workers[w].idx <= Len(workers[w].docs)

\* convert_all(raises_on_error=True) raises ConversionError when the next
\* document fails to convert; the generator is consumed by the for loop.
WorkerConvertRaises(w) ==
    /\ InLoop(w)
    /\ workers' = [workers EXCEPT ![w].status = "raised", ![w].err = "ConversionError"]
    /\ UNCHANGED <<store, calls>>

\* status != SUCCESS (a PARTIAL_SUCCESS result) or document is None: continue.
WorkerSkip(w) ==
    /\ InLoop(w)
    /\ workers' = [workers EXCEPT ![w].idx = @ + 1,
                                  ![w].skipped = @ \cup {workers[w].idx}]
    /\ UNCHANGED <<store, calls>>

\* setup_chunker_and_embedder raises (tokenizer, model or chunker set-up).
WorkerSetupRaises(w) ==
    /\ InLoop(w)
    /\ workers' = [workers EXCEPT ![w].status = "raised", ![w].err = "SetupError"]
    /\ UNCHANGED <<store, calls>>

\* The insert call outside any try.
InsertErrorPropagates == FALSE

\* except Exception around vector_io.insert: whether the Worker goes on.
InsertErrorCaught == TRUE

\* No insert call for a Document that has rows in the Collection already.
SkipsInsertIfPresent(valid_chunks) ==
    \/ valid_chunks = <<>>
    \/ \E r \in store : r.document_id = valid_chunks[1].document_id

\* An insert call issued whatever valid_chunks holds.
SkipsInsertNever(valid_chunks) == FALSE

\* if not valid_chunks: continue
SkipsInsert(valid_chunks) == valid_chunks = <<>>

\* A loop that starts over from the first Document when an insert failed.
AfterInsertRewind(idx, insertOk) == IF insertOk THEN idx + 1 ELSE 1

\* A loop that stays on the Document whose insert failed.
AfterInsertRetry(idx, insertOk) == IF insertOk THEN idx + 1 ELSE idx

\* After the insert, or the except clause, the for loop takes the next
\* conversion result.
AfterInsert(idx, insertOk) == idx + 1

\* client.vector_io.insert on the server: the Collection keeps one row per
\* chunk_id; a chunk under a new id is added, a chunk under an id already
\* there takes the place of that row.
Inserted(rows, chunks) ==
    {r \in rows : \A j \in 1..Len(chunks) : chunks[j].chunk_id # r.chunk_id}
        \cup Range(chunks)

\* Lines 183-251 for a converted document: chunk, embed, validate, insert.
WorkerProcess(w, chunkSeqs) ==
    /\ InLoop(w)
    /\ LET me == workers[w]
           file_name == me.docs[me.idx].stem
           embedding_dim == ModelDim
       IN \E chunks \in chunkSeqs, insertOk \in BOOLEAN :
          IF TokenizerRaises(chunks, embedding_dim)
          THEN /\ workers' = [workers EXCEPT ![w].status = "raised",
                                             ![w].err = "TokenizerError"]
               /\ UNCHANGED <<store, calls>>
          ELSE LET rows == ChunksWithEmbedding(w, me.nid, file_name, chunks, embedding_dim)
                   valid_chunks == ValidChunks(rows, embedding_dim)
               IN IF SkipsInsert(valid_chunks)
                  THEN /\ insertOk
                       /\ workers' = [workers EXCEPT ![w].idx = @ + 1,
                                                     ![w].nid = @ + Len(rows)]
                       /\ UNCHANGED <<store, calls>>
                  ELSE /\ calls' = calls \cup {[worker |-> w, idx |-> me.idx,
                                                chunks |-> valid_chunks, ok |-> insertOk]}
                       /\ store' = IF insertOk THEN Inserted(store, valid_chunks) ELSE store
                       /\ workers' = [workers EXCEPT ![w] =
                             IF insertOk \/ InsertErrorCaught
                             THEN [@ EXCEPT !.idx = AfterInsert(@, insertOk),
                                            !.nid = @ + Len(rows)]
                             ELSE [@ EXCEPT !.status = "raised", !.err = "InsertError"]]

\* The loop is over: log and return.
WorkerReturn(w) ==
    /\ workers[w].status = "running"
    /\ workers[w].idx > Len(workers[w].docs)
    /\ workers' = [workers EXCEPT ![w].status = "done"]
    /\ UNCHANGED <<store, calls>>

\* A Partitioner that lists the staging directory while the Fetcher is
\* still writing to it.
PartitionEarly ==
    /\ fstatus # "idle"
    /\ SplitListing(Listing({f.name : f \in {g \in staged : SplitSelects(g)}}))
    /\ workers' = IF sstatus' = "done"
                  THEN [i \in 1..Len(splits') |-> NewWorker(splits'[i])]
                  ELSE workers
    /\ UNCHANGED <<store, calls>>

\* ------------------------------------------------------------ Orchestrator
\* create_pdf_splits takes import_task.output: it runs once the Fetcher has
\* succeeded. ParallelFor then creates one docling_convert per element.
Partition ==
    /\ fstatus = "done"
    /\ SplitListing(Listing({f.name : f \in {g \in staged : SplitSelects(g)}}))
    /\ workers' = IF sstatus' = "done"
                  THEN [i \in 1..Len(splits') |-> NewWorker(splits'[i])]
                  ELSE workers
    /\ UNCHANGED <<store, calls>>

\* The Registrar, the Workers and the store untouched.
RestIdle ==
    /\ registry = <<>> /\ rstatus = "idle" /\ collDim = 0
    /\ regCalls = <<>> /\ workers = <<>> /\ store = {} /\ calls = {}
    /\ use_gpu = FALSE /\ answers = <<>>

\* --------------------------------------------------- the Fetcher on its own
FetchInit ==
    /\ pdf_filenames \in SeqsUpTo(Tokens, MaxNames)
    /\ fstatus = "idle" /\ fidx = 0 /\ attempted = <<>> /\ staged = {}
    /\ num_workers = 1 /\ all_pdfs = <<>> /\ sstatus = "idle" /\ splits = <<>>
    /\ RestIdle

FetchNext ==
    \/ FetchStart /\ UNCHANGED <<splitVars, regVars, workVars, envVars>>
    \/ FetchFile(Sizes) /\ UNCHANGED <<splitVars, regVars, workVars, envVars>>
    \/ FetchReturn /\ UNCHANGED <<splitVars, regVars, workVars, envVars>>

SpecFetch == FetchInit /\ [][FetchNext]_vars

\* ----------------------------------------------- the Partitioner on its own
SplitInit ==
    /\ all_pdfs \in InjSeqsUpTo(1..MaxDocs, MaxDocs)
    /\ num_workers \in -1..MaxK
    /\ sstatus = "idle" /\ splits = <<>>
    /\ pdf_filenames = <<>> /\ fstatus = "done" /\ fidx = 0
    /\ attempted = <<>> /\ staged = {}
    /\ RestIdle

SplitNext == SplitListing(all_pdfs) /\ UNCHANGED <<fetchVars, regVars, workVars, envVars>>

SpecSplit == SplitInit /\ [][SplitNext]_vars

\* ------------------------------------------------- the Registrar on its own
\* A registry entry: the requested model or another, of either type.
Models ==
    [provider_resource_id : {EmbedModelId, "other"},
     model_type : {"embedding", "llm"},
     embedding_dimension : Dims]

RegInit ==
    /\ registry \in SeqsUpTo(Models, MaxModels)
    /\ collDim \in {0} \cup Dims
    /\ rstatus = "idle" /\ regCalls = <<>>
    /\ pdf_filenames = <<>> /\ fstatus = "idle" /\ fidx = 0
    /\ attempted = <<>> /\ staged = {}
    /\ num_workers = 1 /\ all_pdfs = <<>> /\ sstatus = "idle" /\ splits = <<>>
    /\ workers = <<>> /\ store = {} /\ calls = {}
    /\ use_gpu = FALSE /\ answers = <<>>

RegNext ==
    \/ Register /\ UNCHANGED <<fetchVars, splitVars, workVars, envVars>>
    \/ RegisterAgain /\ UNCHANGED <<fetchVars, splitVars, workVars, envVars>>

SpecReg == RegInit /\ [][RegNext]_vars

\* ---------------------------------------------------- a Worker on its own
\* Both documents staged, one partition, either resource profile; what the
\* chunker, the model and the tokenizer answer for each document is fixed
\* beforehand.
WorkerInit ==
    /\ pdf_filenames = [i \in 1..Len(PipeNames) |-> [pad |-> FALSE, name |-> PipeNames[i]]]
    /\ fstatus = "done" /\ fidx = Len(PipeNames) + 1 /\ attempted = [i \in 1..Len(PipeNames) |-> [name |-> PipeNames[i], ok |-> TRUE]]
    /\ staged = {[name |-> PipeNames[i], size |-> 1] : i \in 1..Len(PipeNames)}
    /\ num_workers = 1 /\ all_pdfs = <<>> /\ sstatus = "idle" /\ splits = <<>>
    /\ registry = <<>> /\ rstatus = "idle" /\ collDim = 0 /\ regCalls = <<>>
    /\ workers = <<>> /\ store = {} /\ calls = {}
    /\ use_gpu \in BOOLEAN
    /\ answers \in {<<a, b>> : a \in SeqsUpTo(ChunkEnvs, WorkerChunks),
                               b \in SeqsUpTo(PipeChunkEnvs, 1)}

WorkerNext ==
    \/ Partition /\ UNCHANGED <<fetchVars, regVars, envVars>>
    \/ \E w \in DOMAIN workers :
          /\ \/ WorkerStart(w)
             \/ WorkerConvertRaises(w)
             \/ WorkerSkip(w)
             \/ WorkerSetupRaises(w)
             \/ WorkerProcess(w, {answers[workers[w].idx]})
             \/ WorkerReturn(w)
          /\ UNCHANGED <<fetchVars, splitVars, regVars, envVars>>

SpecWorker == WorkerInit /\ [][WorkerNext]_vars

\* ------------------------------------------------------------ a second run
\* What each Document's chunker, model and tokenizer answer in both runs.
RerunAnswers ==
    {<<a, b>> : a \in SeqsUpTo(PipeChunkEnvs, 1), b \in SeqsUpTo(PipeChunkEnvs, 1)}

\* The identifiers drawn before Document i by a Worker that skips nothing.
DrawnBefore(ans, i) ==
    Cardinality(UNION {{<<j, p>> : p \in {q \in 1..Len(ans[j]) :
                                              PassesChecks(ans[j][q], ModelDim)}} :
                          j \in 1..(i - 1)})

\* The rows a first run with one Worker (number 0) left in the Collection,
\* every insert having succeeded.
FirstRun(ans) ==
    UNION {Range(ValidChunks(ChunksWithEmbedding(0, DrawnBefore(ans, i), PipeNames[i].stem,
                                                 ans[i], ModelDim), ModelDim)) :
              i \in 1..Len(ans)}

\* The pipeline run again over the same staged corpus and the Collection
\* of the first run, with one or two Workers.
RerunInit ==
    /\ pdf_filenames = [i \in 1..Len(PipeNames) |-> [pad |-> FALSE, name |-> PipeNames[i]]]
    /\ fstatus = "done" /\ fidx = Len(PipeNames) + 1 /\ attempted = [i \in 1..Len(PipeNames) |-> [name |-> PipeNames[i], ok |-> TRUE]]
    /\ staged = {[name |-> PipeNames[i], size |-> 1] : i \in 1..Len(PipeNames)}
    /\ num_workers \in {1, 2} /\ all_pdfs = <<>> /\ sstatus = "idle" /\ splits = <<>>
    /\ registry = <<>> /\ rstatus = "idle" /\ collDim = ModelDim /\ regCalls = <<>>
    /\ workers = <<>> /\ calls = {}
    /\ use_gpu = FALSE
    /\ answers \in RerunAnswers
    /\ store = FirstRun(answers)

SpecRerun == RerunInit /\ [][WorkerNext]_vars

\* ------------------------------------------------------- the pipeline run
\* The registries tried: none matching, or the model with its true dimension.
PipeRegistries(dim) ==
    {<<>>,
     <<[provider_resource_id |-> EmbedModelId, model_type |-> "embedding",
        embedding_dimension |-> dim]>>}

Init ==
    /\ pdf_filenames = [i \in 1..Len(PipeNames) |-> [pad |-> FALSE, name |-> PipeNames[i]]]
    /\ num_workers \in PipeWorkerCounts
    /\ fstatus = "idle" /\ fidx = 0 /\ attempted = <<>> /\ staged = {}
    /\ all_pdfs = <<>> /\ sstatus = "idle" /\ splits = <<>>
    /\ registry \in PipeRegistries(ModelDim)
    /\ rstatus = "idle"
    /\ collDim \in {0, OtherDim}
    /\ regCalls = <<>>
    /\ workers = <<>> /\ store = {} /\ calls = {}
    /\ use_gpu = FALSE /\ answers = <<>>

Next ==
    \/ FetchStart /\ UNCHANGED <<splitVars, regVars, workVars, envVars>>
    \/ FetchFile(Sizes) /\ UNCHANGED <<splitVars, regVars, workVars, envVars>>
    \/ FetchReturn /\ UNCHANGED <<splitVars, regVars, workVars, envVars>>
    \/ Register /\ UNCHANGED <<fetchVars, splitVars, workVars, envVars>>
    \/ Partition /\ UNCHANGED <<fetchVars, regVars, envVars>>
    \/ \E w \in DOMAIN workers :
          /\ \/ WorkerStart(w)
             \/ WorkerConvertRaises(w)
             \/ WorkerSkip(w)
             \/ WorkerSetupRaises(w)
             \/ WorkerProcess(w, PipeAnswers)
             \/ WorkerReturn(w)
          /\ UNCHANGED <<fetchVars, splitVars, regVars, envVars>>

Spec == Init /\ [][Next]_vars

\* The Workers a run over the Documents of PipeNames can have.
PipeWorkers == 1..Len(PipeNames)

\* What the chunker may yield for a Document of the fair run: the chunk
\* loop is inside one step of the Worker, so one chunk is as good as many.
FairAnswers == SeqsUpTo(PipeChunkEnvs, 1)

\* The steps of one task, the rest of the run left alone.
FetcherRun ==
    (FetchStart \/ FetchFile(Sizes) \/ FetchReturn)
        /\ UNCHANGED <<splitVars, regVars, workVars, envVars>>
RegistrarRun == Register /\ UNCHANGED <<fetchVars, splitVars, workVars, envVars>>
PartitionerRun == Partition /\ UNCHANGED <<fetchVars, regVars, envVars>>
WorkerRun(w) ==
    /\ w \in DOMAIN workers
    /\ \/ WorkerStart(w)
       \/ WorkerConvertRaises(w)
       \/ WorkerSkip(w)
       \/ WorkerSetupRaises(w)
       \/ WorkerProcess(w, FairAnswers)
       \/ WorkerReturn(w)
    /\ UNCHANGED <<fetchVars, splitVars, regVars, envVars>>

FairNext ==
    \/ FetcherRun
    \/ RegistrarRun
    \/ PartitionerRun
    \/ \E w \in PipeWorkers : WorkerRun(w)

\* The pipeline run when every external call returns or raises and the
\* Orchestrator schedules every task that is ready: no task that can take
\* a step waits for ever.
FairSpec ==
    /\ Init /\ [][FairNext]_vars
    /\ WF_vars(FetcherRun)
    /\ WF_vars(RegistrarRun)
    /\ WF_vars(PartitionerRun)
    /\ \A w \in PipeWorkers : WF_vars(WorkerRun(w))

\* ------------------------------------------------------------------ claims
Started(w) == workers[w].status # "pending"
Stems(split) == {split[i].stem : i \in 1..Len(split)}

\* C1: every chunk a Worker submits to the store has a document_id that
\* belongs to the partition (pdf_split) the Worker was given.
C1_WorkerInsertsOnlyOwnPartition ==
    \A c \in calls : \A i \in 1..Len(c.chunks) :
        c.chunks[i].document_id \in Stems(workers[c.worker].pdf_split)

\* C2: a Worker has started only if the Registrar has completed
\* successfully (so none starts before it, and none after it raised).
C2_NoWorkerBeforeRegistrar ==
    \A w \in DOMAIN workers : Started(w) => rstatus = "done"

\* The documents of pdfs at 0-based positions congruent to r modulo k, in
\* their original order.
Residue(pdfs, k, r) ==
    LET keep(p) == (p - 1) % k = r
    IN SelectSeqIdx(pdfs, keep, 1)

\* C3: for K >= 1 the partitions are pairwise disjoint, their union is the
\* input list, and partition i holds exactly the documents at original
\* indices congruent to i modulo K, in their original relative order.
C3_RoundRobinPartition ==
    (sstatus # "idle" /\ num_workers >= 1) =>
        /\ sstatus = "done"
        /\ \A i, j \in 1..Len(splits) :
              i # j => Range(splits[i]) \cap Range(splits[j]) = {}
        /\ UNION {Range(splits[i]) : i \in 1..Len(splits)} = Range(all_pdfs)
        /\ \A i \in 1..Len(splits) : splits[i] = Residue(all_pdfs, num_workers, i - 1)

\* Three documents in two partitions: <<first, third>> and <<second>>.
C3_Witness ==
    /\ sstatus = "done" /\ num_workers = 2 /\ Len(all_pdfs) = 3
    /\ splits = <<<<all_pdfs[1], all_pdfs[3]>>, <<all_pdfs[2]>>>>

\* C4: with K <= 0 or N = 0 the Partitioner returns exactly one partition,
\* the empty one, and does not raise.
C4_DegenerateGivesOneEmptyPartition ==
    (sstatus # "idle" /\ (num_workers <= 0 \/ Len(all_pdfs) = 0)) =>
        sstatus = "done" /\ splits = <<<<>>>>

\* K = 0 with three documents listed.
C4_Witness ==
    /\ sstatus = "done" /\ num_workers = 0 /\ Len(all_pdfs) = 3
    /\ splits = <<<<>>>>

\* C5: once the Registrar has succeeded, every chunk a Worker has submitted
\* to the Collection (hence every chunk in the store) has an embedding of
\* the dimension the Collection is registered with.
C5_SubmittedChunksHaveCollectionDim ==
    rstatus = "done" =>
        \A c \in calls : \A i \in 1..Len(c.chunks) : c.chunks[i].dim = collDim

\* C6: a conversion failure of one document does not abort the Worker: no
\* Worker ends on a ConversionError with its other documents unprocessed.
C6_ConversionFailureSkipsOneDocument ==
    \A w \in DOMAIN workers :
        ~(workers[w].status = "raised" /\ workers[w].err = "ConversionError")

\* C7: an insert that raises is contained: the Worker does not end on it,
\* and it has gone on to the documents after the one whose batch failed.
C7_InsertFailureContained ==
    /\ \A w \in DOMAIN workers : workers[w].err # "InsertError"
    /\ \A c \in calls : ~c.ok => workers[c.worker].idx > c.idx
    /\ \A w \in DOMAIN workers :
          workers[w].status = "done" => workers[w].idx = Len(workers[w].docs) + 1

\* A Worker that completed after a failed insert for one document and a
\* successful insert for a later one.
C7_Witness ==
    \E w \in DOMAIN workers :
        /\ workers[w].status = "done"
        /\ \E c1, c2 \in calls :
              /\ c1.worker = w /\ ~c1.ok
              /\ c2.worker = w /\ c2.ok /\ c2.idx > c1.idx

\* Some step of Worker w alone.
WorkerStep(w) ==
    \/ WorkerStart(w) \/ WorkerConvertRaises(w) \/ WorkerSkip(w)
    \/ WorkerSetupRaises(w) \/ WorkerProcess(w, PipeAnswers)
    \/ WorkerReturn(w)

\* What a raise of one Worker leaves alone, and what the others can still do.
C8_Unaffected ==
    /\ \A c \in calls : c.ok => Range(c.chunks) \subseteq store
    /\ \A v \in DOMAIN workers :
          (fstatus = "done" /\ sstatus = "done"
             /\ workers[v].status \in {"pending", "running"}) => ENABLED WorkerStep(v)

\* C8: a step in which one Worker raises changes no other Worker and
\* removes nothing from the store; the batches inserted stay in the store
\* and every other Worker that has not finished can still take its next
\* step, whatever its siblings have done.
C8_WorkersIndependent ==
    /\ []C8_Unaffected
    /\ [][\A w \in DOMAIN workers :
            (workers[w].status # "raised" /\ workers'[w].status = "raised") =>
                /\ \A v \in DOMAIN workers \ {w} : workers'[v] = workers[v]
                /\ store \subseteq store']_vars

\* Worker 1 raised after its insert of one batch; Worker 2 completed, and
\* the chunks of its own partition's document are in the store.
C8_Witness ==
    /\ Len(workers) = 2
    /\ workers[1].status = "raised"
    /\ \E c \in calls : c.worker = 1 /\ c.ok /\ Range(c.chunks) \subseteq store
    /\ workers[2].status = "done"
    /\ \E c \in calls :
          /\ c.worker = 2 /\ c.ok /\ Range(c.chunks) \subseteq store
          /\ \A i \in 1..Len(c.chunks) :
                c.chunks[i].document_id \in Stems(workers[2].pdf_split)

\* C9: no Worker ever terminates with an exception.
C9_NoWorkerRaises ==
    \A w \in DOMAIN workers : workers[w].status # "raised"

\* C10: the Fetcher never raises: when it has stopped, it has completed and
\* every name of the list was attempted.
C10_FetcherNeverRaises ==
    /\ fstatus # "raised"
    /\ fstatus = "done" => Len(attempted) = Len(Filenames(pdf_filenames))

\* No model of the registry can be used: none has the requested id, or the
\* first that has it is not an embedding model.
NoUsableModel ==
    \/ \A i \in 1..Len(registry) : registry[i].provider_resource_id # EmbedModelId
    \/ \E i \in 1..Len(registry) :
          /\ registry[i].provider_resource_id = EmbedModelId
          /\ registry[i].model_type # "embedding"
          /\ \A j \in 1..(i - 1) : registry[j].provider_resource_id # EmbedModelId

\* C11: with no matching model, or a match that is not an embedding model,
\* the Registrar raises without having issued a registration call, and the
\* step in which it raises leaves the Collection and its dimension as they were.
C11_RaisesBeforeRegistering ==
    /\ []((rstatus # "idle" /\ NoUsableModel) => (rstatus = "raised" /\ regCalls = <<>>))
    /\ [][(rstatus # "raised" /\ rstatus' = "raised") =>
            (collDim' = collDim /\ regCalls' = regCalls)]_vars

\* The first match is a language model, a later one an embedding model; the
\* Collection registered earlier is untouched.
C11_Witness ==
    /\ rstatus = "raised" /\ Len(registry) = 2
    /\ registry[1].provider_resource_id = EmbedModelId /\ registry[1].model_type = "llm"
    /\ registry[2].provider_resource_id = EmbedModelId
    /\ registry[2].model_type = "embedding"
    /\ collDim = OtherDim /\ regCalls = <<>>

ExpectedPositions(i) ==
    LET a == answers[i]
        keep(p) == /\ a[p].raw \notin {"None", "", " "}
                   /\ ~a[p].embRaises
                   /\ a[p].embLen = ModelDim
    IN SelectSeqIdx([p \in 1..Len(a) |-> p], keep, 1)

\* The documents Worker w has converted and gone past.
Processed(w) == {i \in 1..(workers[w].idx - 1) : i \notin workers[w].skipped}

\* C13: for every converted document the Worker has gone past, the chunks
\* submitted are exactly the chunker's chunks that are not None, not blank,
\* embedded without error and of the required length, in chunk order (a
\* discarded chunk does not stop the later ones); when the insert succeeded
\* these and no others are the document's rows in the store.
C13_ExactlyTheValidChunks ==
    \A w \in DOMAIN workers : \A i \in Processed(w) :
        LET exp == ExpectedPositions(i)
            mine == {c \in calls : c.worker = w /\ c.idx = i}
            doc == workers[w].docs[i].stem
        IN IF exp = <<>>
           THEN mine = {} /\ {r \in store : r.document_id = doc} = {}
           ELSE /\ mine # {}
                /\ \A c \in mine :
                      /\ [j \in 1..Len(c.chunks) |-> c.chunks[j].pos] = exp
                      /\ \A j \in 1..Len(c.chunks) :
                            c.chunks[j].content = answers[i][exp[j]].raw
                      /\ {r \in store : r.document_id = doc}
                            = (IF c.ok THEN Range(c.chunks) ELSE {})

\* One blank chunk and one valid chunk: exactly one chunk inserted.
C13_Witness ==
    /\ Len(answers) = 2 /\ Len(answers[1]) = 2
    /\ answers[1][1].raw = "" /\ ExpectedPositions(1) = <<2>>
    /\ \E c \in calls :
          /\ c.idx = 1 /\ c.ok /\ Len(c.chunks) = 1 /\ c.chunks[1].pos = 2
          /\ {r \in store : r.document_id = "d0"} = {c.chunks[1]}
\* C14 as stated: no Worker is instantiated for an empty partition.
C14_NoWorkerForEmptyPartition ==
    \A w \in DOMAIN workers : workers[w].pdf_split # <<>>

\* C14: once the Partitioner has returned, there is exactly one Worker per
\* element of its output, in order, the single empty partition of the
\* degenerate case included (an empty partition is never one of several);
\* before that there is none; and a Worker that has not started can start
\* whatever its siblings are doing.
C14_OneWorkerPerPartition ==
    /\ sstatus # "done" => workers = <<>>
    /\ sstatus = "done" =>
          /\ Len(workers) = Len(splits)
          /\ \A i \in 1..Len(splits) : workers[i].pdf_split = splits[i]
    /\ \A w \in DOMAIN workers :
          /\ workers[w].pdf_split = <<>> => Len(workers) = 1
          /\ workers[w].status = "pending" => ENABLED WorkerStart(w)

\* Two Workers; the second has finished while the first has not started.
C14_Witness ==
    /\ Len(workers) = 2
    /\ workers[1].status = "pending"
    /\ workers[2].status = "done"
    /\ workers[1].pdf_split # <<>> /\ workers[2].pdf_split # <<>>
C17_StageOrder ==
    /\ sstatus # "idle" => fstatus = "done"
    /\ \A w \in DOMAIN workers : Started(w) => sstatus = "done"
    /\ rstatus = "idle" => ENABLED Register
    /\ fstatus = "idle" => ENABLED FetchStart

\* Fetcher, then Partitioner, then a Worker, all before the Registrar began.
C17_Witness ==
    /\ fstatus = "done" /\ sstatus = "done" /\ rstatus = "idle"
    /\ \E w \in DOMAIN workers : Started(w)
\* C18: a Document's chunks are submitted by at most one Worker of the run:
\* any two insert calls for the same Document come from the same Worker.
C18_DocumentSubmittedByOneWorker ==
    \A c1, c2 \in calls :
        workers[c1.worker].docs[c1.idx] = workers[c2.worker].docs[c2.idx]
            => c1.worker = c2.worker

\* C19: the Worker given the empty partition never raises and never makes
\* an insert call.
C19_EmptyPartitionWorkerDoesNothing ==
    \A w \in DOMAIN workers :
        workers[w].pdf_split = <<>> =>
            /\ workers[w].status # "raised"
            /\ \A c \in calls : c.worker # w
\* C20: for each converted Document a Worker makes at most one insert call;
\* the call is never empty, every chunk in it carries that Document's id,
\* it holds as many chunks as the Document has valid ones, and a Document
\* the Worker has gone past with zero valid chunks has no call.
C20_OneInsertCallPerDocument ==
    /\ \A c1, c2 \in calls :
          (c1.worker = c2.worker /\ c1.idx = c2.idx) => c1 = c2
    /\ \A c \in calls :
          /\ c.chunks # <<>>
          /\ c.idx \notin workers[c.worker].skipped
          /\ \A j \in DOMAIN c.chunks :
                c.chunks[j].document_id = workers[c.worker].docs[c.idx].stem
          /\ Len(c.chunks) = Len(ExpectedPositions(c.idx))
    /\ \A w \in DOMAIN workers : \A i \in Processed(w) :
          Cardinality({c \in calls : c.worker = w /\ c.idx = i})
              = (IF ExpectedPositions(i) = <<>> THEN 0 ELSE 1)

\* The Worker has returned: two valid chunks of the first Document went in
\* one call, the one valid chunk of the second in another.
C20_Witness ==
    /\ \E w \in DOMAIN workers : workers[w].status = "done"
    /\ Cardinality(calls) = 2
    /\ \E c1, c2 \in calls :
          /\ c1.idx = 1 /\ Len(c1.chunks) = 2
          /\ c2.idx = 2 /\ Len(c2.chunks) = 1
          /\ c1.chunks[1].document_id = "d0" /\ c2.chunks[1].document_id = "d1"
\* The task settings that are not accelerator type, accelerator limit,
\* toleration or node selector.
CommonSettings == {"caching", "cpu_request", "cpu_limit", "memory_request", "memory_limit"}

\* C16: each partition's Worker is the task of the branch use_gpu selects
\* and of that branch only; it is called with what the other branch would
\* call it with; the insert calls it makes are those the Documents'
\* chunks determine, whichever the branch; and the two branches' settings
\* agree outside accelerator type and limit, toleration and node selector.
C16_ProfilesDifferInReservationOnly ==
    /\ \A f \in CommonSettings : GpuBranchResources[f] = CpuBranchResources[f]
    /\ \A w \in DOMAIN workers :
          LET me == workers[w] IN
          /\ me.branch = (IF use_gpu THEN "gpu" ELSE "cpu")
          /\ me.resources = (IF use_gpu THEN GpuBranchResources ELSE CpuBranchResources)
          /\ me.args = GpuBranchArgs(me.pdf_split)
          /\ me.args = CpuBranchArgs(me.pdf_split)
          /\ \A c \in calls : c.worker = w =>
                /\ [j \in 1..Len(c.chunks) |-> c.chunks[j].pos] = ExpectedPositions(c.idx)
                /\ \A j \in 1..Len(c.chunks) :
                      c.chunks[j].content = answers[c.idx][c.chunks[j].pos].raw
          /\ \A i \in Processed(w) :
                ExpectedPositions(i) # <<>> => \E c \in calls : c.worker = w /\ c.idx = i

\* With use_gpu set, the Worker of the accelerator branch has run to the end
\* and made an insert call.
C16_Witness ==
    /\ use_gpu
    /\ \E w \in DOMAIN workers :
          /\ workers[w].status = "done" /\ workers[w].branch = "gpu"
          /\ workers[w].resources.accelerator_limit = 1
          /\ \E c \in calls : c.worker = w /\ c.ok
\* C21: a step of the run removes no row from the Collection and changes
\* none: every row there before the step (of the first run, of another
\* Worker or of the same Worker) is there, as it was, after it.
C21_WorkersOnlyAppend ==
    [][\A r \in store : r \in store']_vars

\* The Collection holds a row of the first run, rows of both Workers of
\* the second, and two rows of the same Worker.
C21_Witness ==
    /\ \E r0, r1, r2 \in store :
          r0.chunk_id[1] = 0 /\ r1.chunk_id[1] = 1 /\ r2.chunk_id[1] = 2
    /\ \E r1, r2 \in store :
          r1 # r2 /\ r1.chunk_id[1] = 1 /\ r2.chunk_id[1] = 1
\* The rows of the Collection that hold the same chunk of the same Document
\* as row r: same document_id, same position, same content.
SameChunk(r) ==
    {q \in store : q.document_id = r.document_id /\ q.pos = r.pos /\ q.content = r.content}

\* C22: a second run over the first run's Collection never looks for what
\* is there: it submits every Document's valid chunks again, under
\* identifiers none of which the first run used, and once a Worker of the
\* second run has returned with nothing skipped and every insert
\* successful, every chunk of the first run is in the Collection at least
\* twice.
C22_RerunDuplicates ==
    /\ \A c \in calls : \A j \in 1..Len(c.chunks) :
          c.chunks[j].chunk_id \notin {r.chunk_id : r \in FirstRun(answers)}
    /\ \A w \in DOMAIN workers : \A i \in Processed(w) :
          ExpectedPositions(i) # <<>> => \E c \in calls : c.worker = w /\ c.idx = i
    /\ \A w \in DOMAIN workers :
          (/\ workers[w].status = "done" /\ workers[w].skipped = {}
           /\ \A c \in calls : c.worker = w => c.ok)
             => \A r \in FirstRun(answers) : Cardinality(SameChunk(r)) >= 2

\* Both Documents had a chunk inserted by the first run, and the second
\* run's only Worker has inserted both again.
C22_Witness ==
    /\ Cardinality(FirstRun(answers)) = 2 /\ Len(workers) = 1
    /\ workers[1].status = "done" /\ workers[1].skipped = {}
    /\ Cardinality(store) = 4
    /\ \A r \in FirstRun(answers) : Cardinality(SameChunk(r)) = 2
\* The smaller of two integers.
Min(a, b) == IF a <= b THEN a ELSE b

\* C23: for N >= 1 documents and K >= 1 the Partitioner returns exactly
\* min(N, K) partitions, none of them empty; an empty partition is in the
\* output only as its single element, when N = 0 or K <= 0.
C23_EmptyPartitionsDropped ==
    sstatus = "done" =>
        /\ (Len(all_pdfs) >= 1 /\ num_workers >= 1) =>
              /\ Len(splits) = Min(Len(all_pdfs), num_workers)
              /\ \A i \in 1..Len(splits) : splits[i] # <<>>
        /\ (\E i \in 1..Len(splits) : splits[i] = <<>>) =>
              /\ splits = <<<<>>>>
              /\ (Len(all_pdfs) = 0 \/ num_workers <= 0)

\* Two documents, K = 3: two partitions of one document each.
C23_Witness ==
    /\ sstatus = "done" /\ num_workers = 3 /\ Len(all_pdfs) = 2
    /\ splits = <<<<all_pdfs[1]>>, <<all_pdfs[2]>>>>
\* The names in the staging area.
StagedNames == {f.name : f \in staged}

BeforeCount(r) == [k \in DOMAIN r.metadata \ {"metadata_token_count"} |-> r.metadata[k]]

\* C25: in the metadata of every chunk submitted, chunk_id is the chunk's
\* own identifier, document_id and file_name are the stem of the Document
\* the chunk was cut from, token_count is the token count of the content,
\* and metadata_token_count is the token count of the metadata serialized
\* without that field.
C25_MetadataDescribesChunk ==
    \A c \in calls : \A j \in 1..Len(c.chunks) :
        LET r == c.chunks[j]
            doc == workers[c.worker].docs[c.idx]
        IN /\ DOMAIN r.metadata = Range(MetadataKeys) \cup {"metadata_token_count"}
           /\ r.metadata.chunk_id = r.chunk_id
           /\ r.metadata.document_id = doc.stem
           /\ r.metadata.file_name = doc.stem
           /\ r.metadata.token_count = CountTokens(answers[c.idx][r.pos].raw)
           /\ r.metadata.metadata_token_count
                 = CountJsonTokens(JsonDumps(BeforeCount(r), MetadataKeys))

\* Two chunks of the first Document and one of the second submitted and
\* inserted, each under its own identifier and its Document's name.
C25_Witness ==
    \E c1, c2 \in calls :
        /\ c1.ok /\ c1.idx = 1 /\ Len(c1.chunks) = 2
        /\ c2.ok /\ c2.idx = 2 /\ Len(c2.chunks) = 1
        /\ c1.chunks[2].metadata.chunk_id = c1.chunks[2].chunk_id
        /\ c1.chunks[2].metadata.file_name = "d0"
        /\ c2.chunks[1].metadata.file_name = "d1"
        /\ c2.chunks[1].metadata.token_count = 1
        /\ Range(c1.chunks) \cup Range(c2.chunks) \subseteq store
\* Model i is the first of the registry with the requested id.
FirstWithId(i) ==
    /\ registry[i].provider_resource_id = EmbedModelId
    /\ \A j \in 1..(i - 1) : registry[j].provider_resource_id # EmbedModelId

\* C26: an invocation of the Registrar that succeeds issues exactly one
\* registration call, for the requested Collection and with the dimension
\* of the first model of the registry that has the requested id; and it
\* succeeds only if that first model is an embedding model, whatever the
\* models after it.
C26_RegistersFirstMatch ==
    /\ [](rstatus = "done" =>
             \E i \in 1..Len(registry) :
                FirstWithId(i) /\ registry[i].model_type = "embedding")
    /\ [][rstatus' = "done" =>
             /\ Len(regCalls') = Len(regCalls) + 1
             /\ SubSeq(regCalls', 1, Len(regCalls)) = regCalls
             /\ \E i \in 1..Len(registry) :
                   /\ FirstWithId(i)
                   /\ regCalls'[Len(regCalls')] =
                         [vector_db_id |-> VectorDbId,
                          embedding_dimension |-> registry[i].embedding_dimension,
                          provider_id |-> "milvus"]]_vars

\* The second model is the first with the requested id; a later model (none
\* here) or an earlier one of another id and dimension plays no part.
C26_Witness ==
    /\ rstatus = "done" /\ Len(registry) = 2 /\ Len(regCalls) = 1
    /\ registry[1].provider_resource_id # EmbedModelId
    /\ registry[1].model_type = "embedding"
    /\ registry[1].embedding_dimension = ModelDim
    /\ registry[2].provider_resource_id = EmbedModelId
    /\ registry[2].embedding_dimension = OtherDim
    /\ regCalls[1].embedding_dimension = OtherDim
    /\ regCalls[1].vector_db_id = VectorDbId
\* C27: no Worker makes two insert calls for one Document; a Worker that
\* has raised or returned stays as it is, a started Worker is never
\* pending again, no Worker goes back to an earlier Document, and the
\* step that makes an insert call, failed or not, moves its Worker on to
\* the next Document.
C27_NoRetry ==
    /\ [](\A c1, c2 \in calls :
             (c1.worker = c2.worker /\ c1.idx = c2.idx) => c1 = c2)
    /\ [][/\ \A w \in DOMAIN workers :
               /\ w \in DOMAIN workers'
               /\ workers[w].status \in {"raised", "done"} => workers'[w] = workers[w]
               /\ Started(w) => workers'[w].status # "pending"
               /\ workers'[w].idx >= workers[w].idx
           /\ \A c \in calls' \ calls :
               /\ c.idx = workers[c.worker].idx
               /\ workers'[c.worker].idx > c.idx]_vars

\* One Worker has raised and stays so while its sibling, one of whose
\* inserts failed and was not made again, has returned.
C27_Witness ==
    \E w, v \in DOMAIN workers :
        /\ workers[w].status = "raised" /\ workers[v].status = "done"
        /\ \E c \in calls :
              /\ c.worker = v /\ ~c.ok
              /\ Cardinality({d \in calls : d.worker = v /\ d.idx = c.idx}) = 1
\* A Kubernetes cpu quantity in millicores: "500m" is 500, "4" is 4000.
CpuMillis(q) == CASE q = "500m" -> 500 [] q = "4" -> 4000

\* A Kubernetes memory quantity in Mi: "2Gi" is 2048, "6Gi" is 6144.
MemoryMi(q) == CASE q = "2Gi" -> 2048 [] q = "6Gi" -> 6144

\* C28: a Worker of the accelerated profile has a cpu limit and a memory
\* limit strictly above those of the standard profile.
C28_AcceleratedCeilingsHigher ==
    \A w \in DOMAIN workers :
        workers[w].branch = "gpu" =>
            /\ CpuMillis(workers[w].resources.cpu_limit)
                  > CpuMillis(CpuBranchResources.cpu_limit)
            /\ MemoryMi(workers[w].resources.memory_limit)
                  > MemoryMi(CpuBranchResources.memory_limit)
\* C29: once the Partitioner has run, the staged files it selected are the
\* staged files a Worker selects for conversion, and a started Worker
\* converts every Document the Partitioner listed.
C29_PartitionedDocumentsConverted ==
    sstatus = "done" =>
        /\ {f \in staged : SplitSelects(f)} = {f \in staged : ConvertSelects(f)}
        /\ \A w \in DOMAIN workers :
              workers[w].status \in {"running", "done"} =>
                  Range(all_pdfs) \subseteq Range(workers[w].docs)
\* Every task of the run has returned or raised, or waits for the output
\* of a task that raised.
RunTerminated ==
    /\ fstatus \in {"done", "raised"}
    /\ rstatus \in {"done", "raised"}
    /\ fstatus = "done" => sstatus \in {"done", "raised"}
    /\ sstatus = "done" =>
          \A w \in DOMAIN workers : workers[w].status \in {"done", "raised"}

\* C30: every step of a running Worker takes it to a later conversion
\* result or ends it, so it visits each result once; every started Worker
\* eventually returns or raises; the whole run eventually terminates and
\* stays so; and a Worker that is not over can take a step whatever point
\* its siblings are at.
C30_RunTerminates ==
    /\ [][\A w \in DOMAIN workers :
              (workers[w].status = "running" /\ workers'[w] # workers[w]) =>
                  \/ workers'[w].status = "raised"
                  \/ workers'[w].status = "done" /\ workers[w].idx > Len(workers[w].docs)
                  \/ workers'[w].status = "running" /\ workers'[w].idx = workers[w].idx + 1]_vars
    /\ \A w \in PipeWorkers :
          (w \in DOMAIN workers /\ Started(w))
              ~> (w \in DOMAIN workers /\ workers[w].status \in {"done", "raised"})
    /\ <>[]RunTerminated
    /\ [](\A w \in DOMAIN workers :
             workers[w].status \in {"pending", "running"} => ENABLED WorkerRun(w))

\* The run is over: both Workers have returned, each having gone through
\* both Documents.
C30_Witness ==
    /\ RunTerminated /\ Len(workers) = 2
    /\ \A w \in DOMAIN workers :
          workers[w].status = "done" /\ workers[w].idx = Len(PipeNames) + 1
====
